---- MODULE Spec2Model ----
(***************************************************************************)
(* Model of the user provisioning tool: main (src/src/main.rs), the        *)
(* Keycloak and GitLab services (src/src/services) and the Nextcloud table *)
(* extractor (src/src/nextcloud_table.rs).                                 *)
(*                                                                         *)
(* One run of main reads the configuration, fetches and decodes the users  *)
(* table and then issues a sequence of backend calls.  Every call is one   *)
(* action; the call and its outcome are appended to log, and a call the    *)
(* backend applies changes the backend's state (keycloak, gitlab).         *)
(***************************************************************************)
EXTENDS Integers, Sequences, FiniteSets, TLC

VARIABLES
    pc,            \* position of main / of the running configure
    result,        \* "running", then the process result: "ok", "err", "panic"
    config,        \* Config: the set of configured backends
    user_configs,  \* HashMap<String, UserConfig>: the desired state
    keycloak,      \* the Keycloak realm: users, roles, role_mappings
    kc,            \* locals of KeycloakConfig::configure and KeycloakClient
    gitlab,        \* the GitLab instance: accounts, group members
    gl,            \* locals of GitLabConfig::configure
    log,           \* every call issued so far, with its outcome
    faults,        \* number of calls that did not succeed so far
    run,           \* number of the current run of the program
    returned,      \* what configure of each backend returned in this run
    rows,          \* decoded table rows handed to get_user_configs
    scheme,        \* the columns of the table scheme Nextcloud answers with
    columns,       \* the raw rows of the table Nextcloud answers with
    url            \* KeycloakConfig.url of the configuration file

vars == <<pc, result, config, user_configs, keycloak, kc, gitlab, gl, log, faults,
         run, returned, rows, scheme, columns, url>>

----------------------------------------------------------------------------
(* Bounds of the model *)

\* largest number of rows of a user in the users table
MaxRoles == 2

\* number of backend calls that may fail
MaxFaults == 1

\* number of times the program is run
MaxRuns == 2

\* longest id list of a raw cell
MaxIds == 3

\* number of times the program is run against backends that apply every call
MaxReliableRuns == 3

Names == {"a", "b", "c"}

\* keys of the desired state
DesiredNames == {"a", "b"}

\* GitLabConfig.owner_role / maintainer_role of the configuration file
owner_role == "owner"

maintainer_role == "maint"

RoleNames == {owner_role, maintainer_role}

Backends == {"keycloak", "authentik", "gitlab"}

\* values of KeycloakConfig.url: an absolute URL, a host without a scheme,
\* the empty string
Urls == {"https://kc.example.org", "kc.example.org", ""}

\* Url::parse of url followed by a path gives Ok: the url has a scheme
ParsesAsUrl(u) == u = "https://kc.example.org"

----------------------------------------------------------------------------
(* Helpers *)

\* the orders in which a HashMap with key set S can be iterated
Perms(S) ==
    {f \in [1..Cardinality(S) -> S] : \A i, j \in 1..Cardinality(S) : f[i] = f[j] => i = j}

\* the elements of a sequence
Range(s) == {s[i] : i \in DOMAIN s}

\* Vec::contains
Contains(s, x) == \E i \in DOMAIN s : s[i] = x

\* all sequences over S of length at most n
SeqsUpTo(S, n) == UNION {[1..k -> S] : k \in 0..n}

\* a set as a Vec, in the order the backend lists it
RECURSIVE SetToSeq(_)
SetToSeq(S) ==
    IF S = {} THEN <<>>
    ELSE LET x == CHOOSE y \in S : TRUE IN <<x>> \o SetToSeq(S \ {x})

\* one log entry: the run, service, operation, the user or role it is about, the
\* roles sent with it, and its outcome
Call(svc, op, arg, roles, res) ==
    [run |-> run, svc |-> svc, op |-> op, arg |-> arg, roles |-> roles, res |-> res]

\* outcomes of a call: "ok" (the backend applied it), "status" (the backend
\* answered with an error status and applied nothing), "err" (the transport
\* failed, send() returned Err), "body" (the backend applied it and the body
\* of the answer could not be read)
CanFail == faults < MaxFaults

Fault(r) == IF r = "ok" THEN 0 ELSE 1

----------------------------------------------------------------------------
(* main: the backends run one after another, a failure ends the run *)

\* a main that goes on to the next backend whatever configure returned
AfterConfigureNoAbort(svc, r) ==
    CASE svc = "keycloak" -> "main_authentik"
      [] svc = "authentik" -> "main_gitlab"
      [] svc = "gitlab" -> "exit"

\* the `?` after each configure(..).await in main
AfterConfigure(svc, r) ==
    IF r # "ok" THEN "exit"
    ELSE CASE svc = "keycloak" -> "main_authentik"
           [] svc = "authentik" -> "main_gitlab"
           [] svc = "gitlab" -> "exit"

\* the process result after configure of svc returned r
ResultAfter(svc, r) ==
    IF r # "ok" THEN r
    ELSE IF svc = "gitlab" THEN "ok" ELSE "running"

\* configure of svc returns r to main
Return(svc, r) ==
    /\ pc' = AfterConfigure(svc, r)
    /\ result' = ResultAfter(svc, r)
    /\ returned' = [returned EXCEPT ![svc] = r]

\* the run goes on at p
Goto(p) == pc' = p /\ result' = result /\ returned' = returned

\* a panic ends the process: indexing user_configs with a name that is no
\* key, unwrap() of an Err
Panic == pc' = "exit" /\ result' = "panic" /\ returned' = returned

\* main returns Err before it has reached the backends
Fail == pc' = "exit" /\ result' = "err" /\ returned' = returned

\* Option<T>
Some(x) == <<x>>

None == <<>>

----------------------------------------------------------------------------
(* Keycloak: the realm *)

KeycloakUser(username) == [id |-> "u-" \o username, username |-> username]

KeycloakRole(name) == [id |-> "r-" \o name, name |-> name]

\* GET /users
RealmUsers(realm) == [i \in DOMAIN realm.users |-> KeycloakUser(realm.users[i])]

\* GET /roles
RealmRoles(realm) == [i \in DOMAIN realm.roles |-> KeycloakRole(realm.roles[i])]

\* GET /users/{id}/role-mappings/realm
RealmRolesOf(realm, username) ==
    LET names == realm.role_mappings[username]
    IN SelectSeq(RealmRoles(realm), LAMBDA role : role.name \in names)

\* POST /users
RealmCreateUser(realm, username) ==
    IF Contains(realm.users, username) THEN realm
    ELSE [realm EXCEPT !.users = Append(@, username),
                       !.role_mappings = [u \in DOMAIN @ \cup {username} |->
                                            IF u \in DOMAIN @ THEN @[u] ELSE {}]]

\* DELETE /users/{id}
RealmDeleteUser(realm, username) ==
    [realm EXCEPT !.users = SelectSeq(@, LAMBDA u : u # username),
                  !.role_mappings = [u \in DOMAIN @ \ {username} |-> @[u]]]

\* POST /roles
RealmCreateRole(realm, name) ==
    IF Contains(realm.roles, name) THEN realm
    ELSE [realm EXCEPT !.roles = Append(@, name)]

\* POST /users/{id}/role-mappings/realm
RealmAddRoles(realm, username, roles) ==
    [realm EXCEPT !.role_mappings[username] =
        @ \cup {r.name : r \in {x \in Range(roles) : Contains(realm.roles, x.name)}}]

\* DELETE /users/{id}/role-mappings/realm
RealmRemoveRoles(realm, username, roles) ==
    [realm EXCEPT !.role_mappings[username] = @ \ {r.name : r \in Range(roles)}]

\* the realm of a backend that is not configured
EmptyRealm == [users |-> <<>>, roles |-> <<>>, role_mappings |-> <<>>]

----------------------------------------------------------------------------
(* Keycloak: the plan of KeycloakConfig::configure *)

\* users_to_create: the keys of users with no Keycloak user of that name
UsersToCreate(users, keycloak_users) ==
    {u \in DOMAIN users : ~ \E i \in DOMAIN keycloak_users : u = keycloak_users[i].username}

\* users_to_update: the Keycloak users whose name is a key of users
UsersToUpdate(users, keycloak_users) ==
    SelectSeq(keycloak_users, LAMBDA k : k.username \in DOMAIN users)

\* users_to_delete: the Keycloak users whose name is no key of users
UsersToDelete(users, keycloak_users) ==
    SelectSeq(keycloak_users, LAMBDA k : k.username \notin DOMAIN users)

\* a catalog phase that looks only at the matched users
CatalogUsersMatched(users, users_to_update) ==
    {users_to_update[i].username : i \in DOMAIN users_to_update}

\* the users whose role lists the catalog phase reads: update_roles iterates
\* over user_configs, the whole desired state
CatalogUsers(users, users_to_update) == DOMAIN users

\* the role lists of all users, flattened in iteration order
RECURSIVE FlattenRoles(_, _)
FlattenRoles(order, users) ==
    IF order = <<>> THEN <<>>
    ELSE users[Head(order)].roles \o FlattenRoles(Tail(order), users)

\* a catalog phase that does not look at the snapshot of the catalog
RolesToCreateUnfiltered(order, users, keycloak_roles) == FlattenRoles(order, users)

\* the role names update_roles creates: every occurrence of a role name
\* that is not in the first snapshot of the catalog
RolesToCreate(order, users, keycloak_roles) ==
    SelectSeq(FlattenRoles(order, users),
              LAMBDA r : ~ \E i \in DOMAIN keycloak_roles : keycloak_roles[i].name = r)

\* a roles_to_add that does not look at the roles already assigned
roles_to_add_unfiltered(config_roles, keycloak_roles, existing_roles) ==
    SelectSeq(keycloak_roles, LAMBDA role : Contains(config_roles, role.name))

\* KeycloakClient::roles_to_add
roles_to_add(config_roles, keycloak_roles, existing_roles) ==
    SelectSeq(keycloak_roles,
              LAMBDA role : Contains(config_roles, role.name) /\ ~ Contains(existing_roles, role))

\* a roles_to_remove that does not look at the desired roles
roles_to_remove_all(config_roles, keycloak_roles) == keycloak_roles

\* KeycloakClient::roles_to_remove
roles_to_remove(config_roles, keycloak_roles) ==
    SelectSeq(keycloak_roles, LAMBDA role : ~ Contains(config_roles, role.name))

KcIdle ==
    [keycloak_users |-> <<>>, users_to_create |-> <<>>, users_to_update |-> <<>>,
     users_to_delete |-> <<>>, keycloak_roles |-> <<>>, roles_to_create |-> <<>>,
     existing_roles |-> <<>>, roles_to_add |-> <<>>, roles_to_remove |-> <<>>,
     refreshed |-> FALSE, i |-> 1]

----------------------------------------------------------------------------
(* Keycloak: KeycloakConfig::configure, one action per backend call *)

\* outcomes of a call whose response body is not read
Outcomes == {"ok"} \cup (IF CanFail THEN {"status", "err"} ELSE {})

\* outcomes of create_users' POST, whose answer is read with text().await?:
\* also "body" (the backend applied the call, reading the body gave Err)
BodyOutcomes == Outcomes \cup (IF CanFail THEN {"body"} ELSE {})

\* the backend applied the call
Applied(r) == r \in {"ok", "body"}

\* outcomes of a call whose response is parsed: an error status gives a
\* body that does not parse, so that both failures are an Err
FetchOutcomes == {"ok"} \cup (IF CanFail THEN {"err"} ELSE {})

\* a configure that updates the matched users before it creates the new ones
KcNextUpdateFirst(p) ==
    CASE p = "kc_new" -> "kc_get_all_users"
      [] p = "kc_get_all_users" -> "kc_update_users"
      [] p = "kc_update_users" -> "kc_create_users"
      [] p = "kc_create_users" -> "kc_get_all_realm_roles"
      [] p = "kc_get_all_realm_roles" -> "kc_create_realm_role"
      [] p = "kc_create_realm_role" -> "kc_refresh_realm_roles"
      [] p = "kc_refresh_realm_roles" -> "kc_get_realm_roles"
      [] p = "kc_get_realm_roles" -> "kc_delete_users"

\* an update_roles that does not fetch the catalog again
KcNextNoRefresh(p) ==
    CASE p = "kc_new" -> "kc_get_all_users"
      [] p = "kc_get_all_users" -> "kc_create_users"
      [] p = "kc_create_users" -> "kc_update_users"
      [] p = "kc_update_users" -> "kc_get_all_realm_roles"
      [] p = "kc_get_all_realm_roles" -> "kc_create_realm_role"
      [] p = "kc_create_realm_role" -> "kc_get_realm_roles"
      [] p = "kc_get_realm_roles" -> "kc_delete_users"

\* the order of the steps of configure and of update_roles
KcNext(p) ==
    CASE p = "kc_new" -> "kc_get_all_users"
      [] p = "kc_get_all_users" -> "kc_create_users"
      [] p = "kc_create_users" -> "kc_update_users"
      [] p = "kc_update_users" -> "kc_get_all_realm_roles"
      [] p = "kc_get_all_realm_roles" -> "kc_create_realm_role"
      [] p = "kc_create_realm_role" -> "kc_refresh_realm_roles"
      [] p = "kc_refresh_realm_roles" -> "kc_get_realm_roles"
      [] p = "kc_get_realm_roles" -> "kc_delete_users"

\* what a failed call of update_user_roles' POST does to the run: an Err of
\* send() is propagated, an error status is logged and the run goes on
AddRolesAborts(r) == r = "err"

\* a call whose Err is propagated with `?`; an error status is not looked at
CallAborts(r) == r \in {"err", "body"}

\* KeycloakClient::new: AuthUrl::new(..).unwrap() and TokenUrl::new(..).unwrap()
\* panic when the url does not parse; then the password grant
KcNew ==
    /\ pc = "kc_new"
    /\ IF ~ ParsesAsUrl(url)
       THEN /\ Panic
            /\ UNCHANGED <<log, faults>>
       ELSE \E r \in FetchOutcomes :
            /\ log' = Append(log, Call("keycloak", "token", "", <<>>, r))
            /\ faults' = faults + Fault(r)
            /\ IF r = "ok"
               THEN Goto(KcNext("kc_new"))
               ELSE Return("keycloak", "err")
    /\ kc' = KcIdle
    /\ UNCHANGED <<run, config, user_configs, keycloak, gitlab, gl, rows, scheme, columns, url>>

\* get_all_users, and the three parts of the plan.  users_to_update and
\* users_to_delete are computed later in configure, from keycloak_users and
\* users, which do not change in between.
KcGetAllUsers ==
    /\ pc = "kc_get_all_users"
    /\ \E r \in FetchOutcomes :
        /\ log' = Append(log, Call("keycloak", "get_all_users", "", <<>>, r))
        /\ faults' = faults + Fault(r)
        /\ IF r = "ok"
           THEN /\ Goto(KcNext("kc_get_all_users"))
                /\ LET keycloak_users == RealmUsers(keycloak)
                   IN \E order \in Perms(UsersToCreate(user_configs, keycloak_users)) :
                        kc' = [kc EXCEPT !.keycloak_users = keycloak_users,
                                         !.users_to_create = order,
                                         !.users_to_update = UsersToUpdate(user_configs, keycloak_users),
                                         !.users_to_delete = UsersToDelete(user_configs, keycloak_users),
                                         !.i = 1]
           ELSE Return("keycloak", "err") /\ kc' = kc
    /\ UNCHANGED <<run, config, user_configs, keycloak, gitlab, gl, rows, scheme, columns, url>>

\* create_users: one POST per user to create
KcCreateUsers ==
    /\ pc = "kc_create_users"
    /\ IF kc.i > Len(kc.users_to_create)
       THEN /\ pc' = KcNext("kc_create_users")
            /\ kc' = [kc EXCEPT !.i = 1]
            /\ UNCHANGED <<result, returned, keycloak, log, faults>>
       ELSE LET user == kc.users_to_create[kc.i]
            IN \E r \in BodyOutcomes :
                /\ log' = Append(log, Call("keycloak", "create_user", user, <<>>, r))
                /\ faults' = faults + Fault(r)
                /\ keycloak' = IF Applied(r) THEN RealmCreateUser(keycloak, user) ELSE keycloak
                /\ IF CallAborts(r)
                   THEN Return("keycloak", "err") /\ kc' = kc
                   ELSE Goto(pc) /\ kc' = [kc EXCEPT !.i = @ + 1]
    /\ UNCHANGED <<run, config, user_configs, gitlab, gl, rows, scheme, columns, url>>

\* update_users: one PUT per matched user; the attributes of a realm user
\* are not part of the model, so that an applied update leaves keycloak as
\* it is
KcUpdateUsers ==
    /\ pc = "kc_update_users"
    /\ IF kc.i > Len(kc.users_to_update)
       THEN /\ pc' = KcNext("kc_update_users")
            /\ kc' = [kc EXCEPT !.i = 1]
            /\ UNCHANGED <<result, returned, log, faults>>
       ELSE LET user == kc.users_to_update[kc.i]
            IN IF user.username \notin DOMAIN user_configs
               THEN \* user_configs[&user.username] panics
                    /\ Panic
                    /\ UNCHANGED <<kc, log, faults>>
               ELSE \E r \in Outcomes :
                    /\ log' = Append(log, Call("keycloak", "update_user", user.username, <<>>, r))
                    /\ faults' = faults + Fault(r)
                    /\ IF CallAborts(r)
                       THEN Return("keycloak", "err") /\ kc' = kc
                       ELSE Goto(pc) /\ kc' = [kc EXCEPT !.i = @ + 1]
    /\ UNCHANGED <<run, config, user_configs, keycloak, gitlab, gl, rows, scheme, columns, url>>

\* update_roles: the first get_all_realm_roles, and the role names to create
KcGetAllRealmRoles ==
    /\ pc = "kc_get_all_realm_roles"
    /\ \E r \in FetchOutcomes :
        /\ log' = Append(log, Call("keycloak", "get_all_realm_roles", "", <<>>, r))
        /\ faults' = faults + Fault(r)
        /\ IF r = "ok"
           THEN /\ Goto(KcNext("kc_get_all_realm_roles"))
                /\ LET keycloak_roles == RealmRoles(keycloak)
                   IN \E order \in Perms(CatalogUsers(user_configs, kc.users_to_update)) :
                        kc' = [kc EXCEPT !.keycloak_roles = keycloak_roles,
                                         !.roles_to_create = RolesToCreate(order, user_configs, keycloak_roles),
                                         !.i = 1]
           ELSE Return("keycloak", "err") /\ kc' = kc
    /\ UNCHANGED <<run, config, user_configs, keycloak, gitlab, gl, rows, scheme, columns, url>>

\* update_roles: create_realm_role for the next role name to create
KcCreateRealmRole ==
    /\ pc = "kc_create_realm_role"
    /\ IF kc.i > Len(kc.roles_to_create)
       THEN /\ pc' = KcNext("kc_create_realm_role")
            /\ kc' = [kc EXCEPT !.i = 1]
            /\ UNCHANGED <<result, returned, keycloak, log, faults>>
       ELSE LET role == kc.roles_to_create[kc.i]
            IN \E r \in Outcomes :
                /\ log' = Append(log, Call("keycloak", "create_role", role, <<>>, r))
                /\ faults' = faults + Fault(r)
                /\ keycloak' = IF r = "ok" THEN RealmCreateRole(keycloak, role) ELSE keycloak
                /\ IF CallAborts(r)
                   THEN Return("keycloak", "err") /\ kc' = kc
                   ELSE Goto(pc) /\ kc' = [kc EXCEPT !.i = @ + 1]
    /\ UNCHANGED <<run, config, user_configs, gitlab, gl, rows, scheme, columns, url>>

\* update_roles: the second get_all_realm_roles
KcRefreshRealmRoles ==
    /\ pc = "kc_refresh_realm_roles"
    /\ \E r \in FetchOutcomes :
        /\ log' = Append(log, Call("keycloak", "get_all_realm_roles", "", <<>>, r))
        /\ faults' = faults + Fault(r)
        /\ IF r = "ok"
           THEN /\ Goto(KcNext("kc_refresh_realm_roles"))
                /\ kc' = [kc EXCEPT !.keycloak_roles = RealmRoles(keycloak),
                                    !.refreshed = TRUE, !.i = 1]
           ELSE Return("keycloak", "err") /\ kc' = kc
    /\ UNCHANGED <<run, config, user_configs, keycloak, gitlab, gl, rows, scheme, columns, url>>

\* update_roles: get_realm_roles of the next matched user, and the two diffs
KcGetRealmRoles ==
    /\ pc = "kc_get_realm_roles"
    /\ IF kc.i > Len(kc.users_to_update)
       THEN /\ pc' = KcNext("kc_get_realm_roles")
            /\ kc' = [kc EXCEPT !.i = 1]
            /\ UNCHANGED <<result, returned, log, faults>>
       ELSE LET user == kc.users_to_update[kc.i]
            IN IF user.username \notin DOMAIN user_configs
               THEN \* user_configs[&user.username] panics
                    /\ Panic
                    /\ UNCHANGED <<kc, log, faults>>
               ELSE \E r \in FetchOutcomes :
                    /\ log' = Append(log, Call("keycloak", "get_realm_roles", user.username, <<>>, r))
                    /\ faults' = faults + Fault(r)
                    /\ IF r = "ok"
                       THEN /\ Goto("kc_add_roles")
                            /\ LET configured_roles == user_configs[user.username].roles
                                   existing_roles == RealmRolesOf(keycloak, user.username)
                               IN kc' = [kc EXCEPT
                                    !.existing_roles = existing_roles,
                                    !.roles_to_add = roles_to_add(configured_roles, kc.keycloak_roles, existing_roles),
                                    !.roles_to_remove = roles_to_remove(configured_roles, existing_roles)]
                       ELSE Return("keycloak", "err") /\ kc' = kc
    /\ UNCHANGED <<run, config, user_configs, keycloak, gitlab, gl, rows, scheme, columns, url>>

\* an update_user_roles that posts roles_to_add also when it is empty
NeverSkipsAdd(to_add) == FALSE

\* update_user_roles skips the POST: !roles_to_add.is_empty() is false
SkipsAdd(to_add) == to_add = <<>>

\* update_user_roles: the POST of roles_to_add, issued when it is not empty
KcAddRoles ==
    /\ pc = "kc_add_roles"
    /\ LET user == kc.users_to_update[kc.i]
       IN IF SkipsAdd(kc.roles_to_add)
          THEN /\ pc' = "kc_remove_roles"
               /\ UNCHANGED <<result, returned, keycloak, log, faults>>
          ELSE \E r \in Outcomes :
                /\ log' = Append(log, Call("keycloak", "add_roles", user.username, kc.roles_to_add, r))
                /\ faults' = faults + Fault(r)
                /\ keycloak' = IF r = "ok"
                               THEN RealmAddRoles(keycloak, user.username, kc.roles_to_add)
                               ELSE keycloak
                /\ IF AddRolesAborts(r)
                   THEN Return("keycloak", "err")
                   ELSE Goto("kc_remove_roles")
    /\ UNCHANGED <<run, config, user_configs, kc, gitlab, gl, rows, scheme, columns, url>>

\* update_user_roles: the DELETE of roles_to_remove, issued always
KcRemoveRoles ==
    /\ pc = "kc_remove_roles"
    /\ LET user == kc.users_to_update[kc.i]
       IN \E r \in Outcomes :
            /\ log' = Append(log, Call("keycloak", "remove_roles", user.username, kc.roles_to_remove, r))
            /\ faults' = faults + Fault(r)
            /\ keycloak' = IF r = "ok"
                           THEN RealmRemoveRoles(keycloak, user.username, kc.roles_to_remove)
                           ELSE keycloak
            /\ IF CallAborts(r)
               THEN Return("keycloak", "err") /\ kc' = kc
               ELSE Goto("kc_get_realm_roles")
                    /\ kc' = [kc EXCEPT !.i = @ + 1]
    /\ UNCHANGED <<run, config, user_configs, gitlab, gl, rows, scheme, columns, url>>

\* delete_users: one DELETE per Keycloak user that is not desired; after the
\* last one configure returns Ok
KcDeleteUsers ==
    /\ pc = "kc_delete_users"
    /\ IF kc.i > Len(kc.users_to_delete)
       THEN /\ Return("keycloak", "ok")
            /\ UNCHANGED <<kc, keycloak, log, faults>>
       ELSE LET user == kc.users_to_delete[kc.i]
            IN \E r \in Outcomes :
                /\ log' = Append(log, Call("keycloak", "delete_user", user.username, <<>>, r))
                /\ faults' = faults + Fault(r)
                /\ keycloak' = IF r = "ok" THEN RealmDeleteUser(keycloak, user.username) ELSE keycloak
                /\ IF CallAborts(r)
                   THEN Return("keycloak", "err") /\ kc' = kc
                   ELSE Goto(pc) /\ kc' = [kc EXCEPT !.i = @ + 1]
    /\ UNCHANGED <<run, config, user_configs, gitlab, gl, rows, scheme, columns, url>>

NextKeycloak ==
    \/ KcNew \/ KcGetAllUsers \/ KcCreateUsers \/ KcUpdateUsers
    \/ KcGetAllRealmRoles \/ KcCreateRealmRole \/ KcRefreshRealmRoles
    \/ KcGetRealmRoles \/ KcAddRoles \/ KcRemoveRoles \/ KcDeleteUsers

----------------------------------------------------------------------------
(* authentik: services/authentik.rs is not part of the sources at hand; its
   configure is one opaque step that contacts the backend and returns *)

AkConfigure ==
    /\ pc = "ak_configure"
    /\ \E r \in FetchOutcomes :
        /\ log' = Append(log, Call("authentik", "configure", "", <<>>, r))
        /\ faults' = faults + Fault(r)
        /\ Return("authentik", r)
    /\ UNCHANGED <<run, config, user_configs, keycloak, kc, gitlab, gl, rows, scheme, columns, url>>

----------------------------------------------------------------------------
(* GitLab: the instance *)

\* the accounts a GitLab instance of the model can hold
GitlabUsers ==
    {[id |-> 1, username |-> "a"], [id |-> 2, username |-> "A"],
     [id |-> 3, username |-> "b"], [id |-> 4, username |-> "c"]}

\* GitLab compares usernames without regard to case
Lower(name) == IF name = "A" THEN "a" ELSE name

\* GET /users?username=
GitlabFindUsers(instance, username) ==
    SetToSeq({u \in instance.accounts : Lower(u.username) = Lower(username)})

\* POST /groups/{id}/members and PUT /groups/{id}/members/{user}
GitlabSetMember(instance, user, level) ==
    [instance EXCEPT !.members = [m \in DOMAIN @ \cup {user} |->
                                    IF m = user THEN level ELSE @[m]]]

\* DELETE /groups/{id}/members/{user}
GitlabRemoveMember(instance, user) ==
    [instance EXCEPT !.members = [m \in DOMAIN @ \ {user} |-> @[m]]]

\* the instance of a backend that is not configured
EmptyInstance == [accounts |-> {}, members |-> <<>>]

----------------------------------------------------------------------------
(* GitLab: the plan of GitLabConfig::configure *)

\* the desired users that hold maintainer_role or owner_role
GitlabCandidates(users) ==
    {u \in DOMAIN users :
        \E i \in DOMAIN users[u].roles :
            users[u].roles[i] = maintainer_role \/ users[u].roles[i] = owner_role}

\* .query(&client).ok() followed by filter_map(|mut v| v.pop()): the last
\* account of an answer, nothing for an empty answer and nothing for an Err
Resolved(r, found) ==
    IF r = "ok" /\ found # <<>> THEN <<found[Len(found)]>> ELSE <<>>

\* partition(|m| users.contains(m)), first part
GlUsersToUpdate(users, current_group_members) ==
    SelectSeq(current_group_members, LAMBDA m : Contains(users, m))

\* partition(|m| users.contains(m)), second part
GlUsersToRemove(users, current_group_members) ==
    SelectSeq(current_group_members, LAMBDA m : ~ Contains(users, m))

\* users_to_create
GlUsersToCreate(users, users_to_update) ==
    SelectSeq(users, LAMBDA u : ~ Contains(users_to_update, u))

\* an access level that looks at maintainer_role first
AccessLevelMaintainerFirst(roles) ==
    IF Contains(roles, maintainer_role) THEN "Maintainer" ELSE "Owner"

\* the access level of add and edit
AccessLevel(roles) == IF Contains(roles, owner_role) THEN "Owner" ELSE "Maintainer"

GlIdle ==
    [lookup |-> <<>>, users |-> <<>>, current_group_members |-> <<>>,
     users_to_update |-> <<>>, users_to_remove |-> <<>>, users_to_create |-> <<>>,
     i |-> 1]

\* the order of the steps of configure
GlNext(p) ==
    CASE p = "gl_new" -> "gl_find_users"
      [] p = "gl_find_users" -> "gl_get_members"
      [] p = "gl_get_members" -> "gl_add_members"
      [] p = "gl_add_members" -> "gl_edit_members"
      [] p = "gl_edit_members" -> "gl_remove_members"

\* Gitlab::new, which asks the instance; then the candidates in the
\* iteration order of user_configs
GlNew ==
    /\ pc = "gl_new"
    /\ \E r \in FetchOutcomes :
        /\ log' = Append(log, Call("gitlab", "connect", "", <<>>, r))
        /\ faults' = faults + Fault(r)
        /\ IF r = "ok"
           THEN /\ Goto(GlNext("gl_new"))
                /\ \E order \in Perms(GitlabCandidates(user_configs)) :
                     gl' = [GlIdle EXCEPT !.lookup = order]
           ELSE Return("gitlab", "err") /\ gl' = GlIdle
    /\ UNCHANGED <<run, config, user_configs, keycloak, kc, gitlab, rows, scheme, columns, url>>

\* the username lookup of the next candidate; after the last one `users`
\* is complete
GlFindUsers ==
    /\ pc = "gl_find_users"
    /\ IF gl.i > Len(gl.lookup)
       THEN /\ pc' = GlNext("gl_find_users")
            /\ gl' = [gl EXCEPT !.i = 1]
            /\ UNCHANGED <<log, faults>>
       ELSE LET username == gl.lookup[gl.i]
            IN \E r \in FetchOutcomes :
                /\ log' = Append(log, Call("gitlab", "find_user", username, <<>>, r))
                /\ faults' = faults + Fault(r)
                /\ pc' = pc
                /\ gl' = [gl EXCEPT !.users = @ \o Resolved(r, GitlabFindUsers(gitlab, username)),
                                    !.i = @ + 1]
    /\ UNCHANGED <<result, returned, run, config, user_configs, keycloak, kc, gitlab, rows, scheme, columns, url>>

\* the members of the group, and the three parts of the plan
GlGetMembers ==
    /\ pc = "gl_get_members"
    /\ \E r \in FetchOutcomes :
        /\ log' = Append(log, Call("gitlab", "get_members", "", <<>>, r))
        /\ faults' = faults + Fault(r)
        /\ IF r = "ok"
           THEN /\ Goto(GlNext("gl_get_members"))
                /\ \E current_group_members \in Perms(DOMAIN gitlab.members) :
                     LET users_to_update == GlUsersToUpdate(gl.users, current_group_members)
                     IN gl' = [gl EXCEPT
                            !.current_group_members = current_group_members,
                            !.users_to_update = users_to_update,
                            !.users_to_remove = GlUsersToRemove(gl.users, current_group_members),
                            !.users_to_create = GlUsersToCreate(gl.users, users_to_update),
                            !.i = 1]
           ELSE Return("gitlab", "err") /\ gl' = gl
    /\ UNCHANGED <<run, config, user_configs, keycloak, kc, gitlab, rows, scheme, columns, url>>

\* AddGroupMember for the next user to create
GlAddMembers ==
    /\ pc = "gl_add_members"
    /\ IF gl.i > Len(gl.users_to_create)
       THEN /\ pc' = GlNext("gl_add_members")
            /\ gl' = [gl EXCEPT !.i = 1]
            /\ UNCHANGED <<result, returned, gitlab, log, faults>>
       ELSE LET user == gl.users_to_create[gl.i]
            IN IF user.username \notin DOMAIN user_configs
               THEN \* user_configs[&user.username] panics
                    /\ Panic
                    /\ UNCHANGED <<gl, gitlab, log, faults>>
               ELSE \E r \in FetchOutcomes :
                    /\ log' = Append(log, Call("gitlab", "add_member", user.username, <<>>, r))
                    /\ faults' = faults + Fault(r)
                    /\ gitlab' = IF r = "ok"
                                 THEN GitlabSetMember(gitlab, user,
                                        AccessLevel(user_configs[user.username].roles))
                                 ELSE gitlab
                    /\ IF r = "ok"
                       THEN Goto(pc) /\ gl' = [gl EXCEPT !.i = @ + 1]
                       ELSE Return("gitlab", "err") /\ gl' = gl
    /\ UNCHANGED <<run, config, user_configs, keycloak, kc, rows, scheme, columns, url>>

\* EditGroupMember for the next user to update
GlEditMembers ==
    /\ pc = "gl_edit_members"
    /\ IF gl.i > Len(gl.users_to_update)
       THEN /\ pc' = GlNext("gl_edit_members")
            /\ gl' = [gl EXCEPT !.i = 1]
            /\ UNCHANGED <<result, returned, gitlab, log, faults>>
       ELSE LET user == gl.users_to_update[gl.i]
            IN IF user.username \notin DOMAIN user_configs
               THEN \* user_configs[&user.username] panics
                    /\ Panic
                    /\ UNCHANGED <<gl, gitlab, log, faults>>
               ELSE \E r \in FetchOutcomes :
                    /\ log' = Append(log, Call("gitlab", "edit_member", user.username, <<>>, r))
                    /\ faults' = faults + Fault(r)
                    /\ gitlab' = IF r = "ok"
                                 THEN GitlabSetMember(gitlab, user,
                                        AccessLevel(user_configs[user.username].roles))
                                 ELSE gitlab
                    /\ IF r = "ok"
                       THEN Goto(pc) /\ gl' = [gl EXCEPT !.i = @ + 1]
                       ELSE Return("gitlab", "err") /\ gl' = gl
    /\ UNCHANGED <<run, config, user_configs, keycloak, kc, rows, scheme, columns, url>>

\* RemoveGroupMember for the next user to remove; after the last one
\* configure returns Ok
GlRemoveMembers ==
    /\ pc = "gl_remove_members"
    /\ IF gl.i > Len(gl.users_to_remove)
       THEN /\ Return("gitlab", "ok")
            /\ UNCHANGED <<gl, gitlab, log, faults>>
       ELSE LET user == gl.users_to_remove[gl.i]
            IN \E r \in FetchOutcomes :
                /\ log' = Append(log, Call("gitlab", "remove_member", user.username, <<>>, r))
                /\ faults' = faults + Fault(r)
                /\ gitlab' = IF r = "ok" THEN GitlabRemoveMember(gitlab, user) ELSE gitlab
                /\ IF r = "ok"
                   THEN Goto(pc) /\ gl' = [gl EXCEPT !.i = @ + 1]
                   ELSE Return("gitlab", "err") /\ gl' = gl
    /\ UNCHANGED <<run, config, user_configs, keycloak, kc, rows, scheme, columns, url>>

NextGitlab ==
    \/ GlNew \/ GlFindUsers \/ GlGetMembers
    \/ GlAddMembers \/ GlEditMembers \/ GlRemoveMembers

----------------------------------------------------------------------------
(* The extractor: get_user_configs on the decoded rows of the table *)

\* NextcloudTableCell
String(s) == [cell |-> "String", value |-> s]

Bool(b) == [cell |-> "Bool", value |-> b]

List(l) == [cell |-> "List", value |-> l]

\* b.get(title) is Some(NextcloudTableCell::String(_))
IsString(b, title) == title \in DOMAIN b /\ b[title].cell = "String"

\* b.get(title) is Some(NextcloudTableCell::List(_))
IsList(b, title) == title \in DOMAIN b /\ b[title].cell = "List"

\* format!("{s} - {role}") for every role of l; the closure gives None, and
\* the role is skipped, when Fachschaft is no String
DerivedRoles(b, l) ==
    IF IsString(b, "Fachschaft")
    THEN [i \in DOMAIN l |-> b["Fachschaft"].value \o " - " \o l[i]]
    ELSE <<>>

\* roles of a row that replace the base roles by the derived ones
RowRolesDerivedOnly(b) ==
    DerivedRoles(b, b["Funktion"].value) \o <<b["Fachschaft"].value>>

\* the roles of a row: l.append(derived roles of l), then l.push(Fachschaft)
RowRoles(b) ==
    LET l == b["Funktion"].value
    IN (l \o DerivedRoles(b, l)) \o <<b["Fachschaft"].value>>

\* a closure that admits a row whose Vorname is missing or no String, with
\* first_name absent
RowUserPartial(b) ==
    IF /\ IsString(b, "Funktionskennung")
       /\ IsString(b, "Nachname")
       /\ IsList(b, "Funktion")
       /\ IsString(b, "Fachschaft")
    THEN <<[user_id |-> b["Funktionskennung"].value,
            user_config |->
               [first_name |-> IF IsString(b, "Vorname") THEN Some(b["Vorname"].value) ELSE None,
                last_name |-> Some(b["Nachname"].value),
                email |-> Some(b["Funktionskennung"].value \o "@hhu.de"),
                matrix_id |-> None,
                roles |-> RowRoles(b),
                enabled |-> TRUE]]>>
    ELSE <<>>

\* a closure that admits a row whose Fachschaft is missing or no String,
\* with the roles of its Funktion list alone
RowUserWithoutFachschaft(b) ==
    IF /\ IsString(b, "Funktionskennung")
       /\ IsString(b, "Vorname")
       /\ IsString(b, "Nachname")
       /\ IsList(b, "Funktion")
    THEN <<[user_id |-> b["Funktionskennung"].value,
            user_config |->
               [first_name |-> Some(b["Vorname"].value),
                last_name |-> Some(b["Nachname"].value),
                email |-> Some(b["Funktionskennung"].value \o "@hhu.de"),
                matrix_id |-> None,
                roles |-> IF IsString(b, "Fachschaft") THEN RowRoles(b)
                          ELSE b["Funktion"].value,
                enabled |-> TRUE]]>>
    ELSE <<>>

\* the closure of filter_map: the (user_id, UserConfig) of a row, or nothing
RowUser(b) ==
    IF /\ IsString(b, "Funktionskennung")
       /\ IsString(b, "Vorname")
       /\ IsString(b, "Nachname")
       /\ IsList(b, "Funktion")
       /\ IsString(b, "Fachschaft")
    THEN <<[user_id |-> b["Funktionskennung"].value,
            user_config |->
               [first_name |-> Some(b["Vorname"].value),
                last_name |-> Some(b["Nachname"].value),
                email |-> Some(b["Funktionskennung"].value \o "@hhu.de"),
                matrix_id |-> None,
                roles |-> RowRoles(b),
                enabled |-> TRUE]]>>
    ELSE <<>>

\* a fold in which the attributes of the latest row win
MergeLastWins(map, user) ==
    IF user.user_id \in DOMAIN map
    THEN [map EXCEPT ![user.user_id] =
            [user.user_config EXCEPT !.roles = map[user.user_id].roles \o @]]
    ELSE [k \in DOMAIN map \cup {user.user_id} |->
            IF k = user.user_id THEN user.user_config ELSE map[k]]

\* one step of the fold: entry(user_id).and_modify(append roles).or_insert
Merge(map, user) ==
    IF user.user_id \in DOMAIN map
    THEN [map EXCEPT ![user.user_id].roles = @ \o user.user_config.roles]
    ELSE [k \in DOMAIN map \cup {user.user_id} |->
            IF k = user.user_id THEN user.user_config ELSE map[k]]

\* the empty HashMap
EmptyMap == [k \in {} |-> None]

\* get_user_configs: filter_map over the rows, folded into a HashMap
RECURSIVE FoldRows(_, _)
FoldRows(map, table) ==
    IF table = <<>> THEN map
    ELSE LET user == RowUser(Head(table))
         IN FoldRows(IF user = <<>> THEN map ELSE Merge(map, user[1]), Tail(table))

get_user_configs(table) == FoldRows(EmptyMap, table)

\* the cells a row of the model can have under each title, and `absent`
Cells(title) ==
    CASE title = "Funktionskennung" -> {String("jdoe"), String("abc123"), String(""),
                                        List(<<>>)}
      [] title = "Vorname" -> {String("Jane"), String("John"), Bool(TRUE)}
      [] title = "Nachname" -> {String("Doe"), String("Roe")}
      [] title = "Funktion" -> {List(<<>>), List(<<"Admin">>), List(<<"Admin", "Kasse">>),
                                String("Admin")}
      [] title = "Fachschaft" -> {String("CS"), String("Bio"), Bool(FALSE)}

Titles == {"Funktionskennung", "Vorname", "Nachname", "Funktion", "Fachschaft"}

\* the decoded rows of the model
DecodedRows ==
    UNION {{b \in [T -> UNION {Cells(t) : t \in T}] : \A t \in T : b[t] \in Cells(t)} :
           T \in SUBSET Titles}

\* admitted rows of the user "jdoe"
RowsOfOneUser ==
    {b \in DecodedRows :
        /\ DOMAIN b = Titles
        /\ b["Funktionskennung"] = String("jdoe")
        /\ b["Vorname"].cell = "String"
        /\ b["Nachname"] = String("Doe")
        /\ b["Funktion"] \in {List(<<>>), List(<<"Admin">>)}
        /\ b["Fachschaft"].cell = "String"}

\* main with UserConfigProvider::NextcloudTable: a table of one or two rows,
\* or of three rows of one user
InitExtract ==
    /\ pc = "get_user_configs"
    /\ rows \in ({<<b>> : b \in DecodedRows} \cup (DecodedRows \X DecodedRows))
                \cup (RowsOfOneUser \X RowsOfOneUser \X RowsOfOneUser)
    /\ scheme = <<>>
    /\ columns = <<>>
    /\ user_configs = EmptyMap
    /\ config = {}
    /\ url = "https://kc.example.org"
    /\ result = "running"
    /\ keycloak = EmptyRealm
    /\ gitlab = EmptyInstance
    /\ kc = KcIdle
    /\ gl = GlIdle
    /\ log = <<>>
    /\ faults = 0
    /\ run = 1
    /\ returned = [b \in Backends |-> "none"]

\* nextcloud_table::get_user_configs(..).await?
Extract ==
    /\ pc = "get_user_configs"
    /\ user_configs' = get_user_configs(rows)
    /\ pc' = "main_keycloak"
    /\ UNCHANGED <<result, config, keycloak, kc, gitlab, gl, log, faults, run, returned, rows, scheme, columns, url>>

SpecExtract == InitExtract /\ [][Extract]_vars

----------------------------------------------------------------------------
(* The decoder: parse_nextcloud_table on a table scheme and raw rows *)

\* ColumnScheme::Text
TextColumn(id, title) == [kind |-> "Text", id |-> id, title |-> title]

\* ColumnScheme::Selection
SelectionColumn(id, title, subtype, selectionOptions) ==
    [kind |-> "Selection", id |-> id, title |-> title, subtype |-> subtype,
     selectionOptions |-> selectionOptions]

\* SelectionOptions
Option(id, label) == [id |-> id, label |-> label]

\* ColumnData::List
ListData(column_id, value) == [data |-> "List", column_id |-> column_id, list |-> value]

\* ColumnData::Number
NumberData(column_id, value) == [data |-> "Number", column_id |-> column_id, number |-> value]

\* ColumnData::Text
TextData(column_id, value) == [data |-> "Text", column_id |-> column_id, text |-> value]

\* iter().find(pred), given the elements that satisfy pred in their order:
\* the first of them, or nothing
Find(hits) == IF hits = <<>> THEN <<>> ELSE <<Head(hits)>>

\* o.id == value as u64.  A u64 is written as the i64 with the same 64 bits
\* (2^64 - 1 as -1, 2^64 - 2 as -2): the cast keeps the bits, so that the
\* comparison is one of bits
IdIs(o, value) == o.id = value

\* labels of the options in the order of the options, for the ids in value
MultiLabelsInOptionOrder(value, selectionOptions) ==
    LET chosen == SelectSeq(selectionOptions, LAMBDA o : \E i \in DOMAIN value : IdIs(o, value[i]))
    IN [i \in DOMAIN chosen |-> chosen[i].label]

\* value.iter().filter_map(|v| selectionOptions.iter().find(..).map(label))
RECURSIVE MultiLabels(_, _)
MultiLabels(value, selectionOptions) ==
    IF value = <<>> THEN <<>>
    ELSE LET o == Find(SelectSeq(selectionOptions, LAMBDA x : IdIs(x, Head(value))))
         IN (IF o = <<>> THEN <<>> ELSE <<o[1].label>>)
                \o MultiLabels(Tail(value), selectionOptions)

\* the guard of the Check arm: value == "true" || value == "false"
IsBoolText(value) == value = "true" \/ value = "false"

\* the closure of the inner filter_map: the (title, cell) of a raw cell, or
\* nothing
ResolveCell(sch, c) ==
    LET found == Find(SelectSeq(sch, LAMBDA cs : cs.id = c.column_id))
    IN IF found = <<>> THEN <<>>
       ELSE LET column == found[1]
            IN CASE column.kind = "Text" /\ c.data = "Text" ->
                      <<[title |-> column.title, cell |-> String(c.text)]>>
                 [] /\ column.kind = "Selection"
                    /\ column.subtype = "Check"
                    /\ c.data = "Text"
                    /\ IsBoolText(c.text) ->
                      <<[title |-> column.title, cell |-> Bool(c.text = "true")]>>
                 [] column.kind = "Selection" /\ column.subtype = "Single" /\ c.data = "Number" ->
                      LET o == Find(SelectSeq(column.selectionOptions, LAMBDA x : IdIs(x, c.number)))
                      IN IF o = <<>> THEN <<>>
                         ELSE <<[title |-> column.title, cell |-> String(o[1].label)]>>
                 [] column.kind = "Selection" /\ column.subtype = "Multi" /\ c.data = "List" ->
                      <<[title |-> column.title,
                         cell |-> List(MultiLabels(c.list, column.selectionOptions))]>>
                 [] OTHER -> <<>>

\* HashMap::insert: a later entry with the same title replaces the earlier
Insert(map, title, cell) ==
    [k \in DOMAIN map \cup {title} |-> IF k = title THEN cell ELSE map[k]]

\* r.data.into_iter().filter_map(..).collect() into a HashMap
RECURSIVE CollectRow(_, _, _)
CollectRow(map, sch, data) ==
    IF data = <<>> THEN map
    ELSE LET e == ResolveCell(sch, Head(data))
         IN CollectRow(IF e = <<>> THEN map ELSE Insert(map, e[1].title, e[1].cell),
                       sch, Tail(data))

\* parse_nextcloud_table: every raw row decoded, in row order
parse_nextcloud_table(cols, sch) ==
    [i \in DOMAIN cols |-> CollectRow(EmptyMap, sch, cols[i])]

\* the option sets of a Single or Multi selection column of the model; the
\* id -1 is the u64 2^64 - 1
OptionSets ==
    {<<>>, <<Option(1, "A"), Option(2, "B")>>, <<Option(-1, "A"), Option(2, "B")>>}

\* the ids a raw cell can refer to: two options and one that is no option
OptionIds == {1, 2, 99}

\* the columns a scheme can have under an id and a title
Columns(id, title) ==
    {TextColumn(id, title), SelectionColumn(id, title, "Check", <<>>)}
        \cup {SelectionColumn(id, title, subtype, o) :
                 subtype \in {"Single", "Multi"}, o \in OptionSets}

\* the table schemes: column 1 and column 2, with the same title or not
Schemes ==
    {<<c1, c2>> : c1 \in Columns(1, "Funktion"),
                  c2 \in Columns(2, "Funktion") \cup Columns(2, "Vorname")}

\* the raw cells of a column, with id lists of at most n ids
CellsOf(id, n) ==
    ({ListData(id, l) : l \in SeqsUpTo(OptionIds, n)}
        \cup {NumberData(id, v) : v \in {1, 99, -1}})
        \cup {TextData(id, v) : v \in {"true", "false", "yes"}}

\* the raw cells: of column 1, of column 2, or of a column not in the scheme
RawCells(n) == UNION {CellsOf(id, n) : id \in {1, 2, 3}}

\* the raw rows: no cell, one cell, or a cell followed by one with a short
\* payload
RawRows ==
    ({<<>>} \cup {<<c>> : c \in RawCells(MaxIds)})
        \cup {<<c1, c2>> : c1 \in RawCells(MaxIds), c2 \in RawCells(1)}

\* raw rows of one cell of column 1 or 2
ShortRawRows ==
    UNION {{<<ListData(id, <<1>>)>>, <<NumberData(id, 1)>>, <<TextData(id, "true")>>} :
           id \in {1, 2}}

\* the subtypes of a selection column that deserialize
SelectionTypes == {"Single", "Multi", "Check"}

\* json::<OcsResponse>() gives Ok: every column has one of the types text
\* and selection, and a selection one of the subtypes
SchemeDeserializes(sch) ==
    \A i \in DOMAIN sch :
        \/ sch[i].kind = "Text"
        \/ sch[i].kind = "Selection" /\ sch[i].subtype \in SelectionTypes

\* json::<Vec<Column>>() gives Ok: every cell matches a variant of ColumnData
RowsDeserialize(cols) ==
    \A r \in DOMAIN cols : \A k \in DOMAIN cols[r] :
        cols[r][k].data \in {"List", "Number", "Text"}

\* a column of the type number, which is no variant of ColumnScheme
NumberColumn(id, title) == [kind |-> "Number", id |-> id, title |-> title]

\* a cell whose value is null, which matches no variant of ColumnData
NullData(column_id) == [data |-> "Null", column_id |-> column_id]

\* schemes that do not deserialize: a column of the type number, a selection
\* of the subtype "single"
BadSchemes ==
    {<<TextColumn(1, "Funktion"), NumberColumn(2, "Vorname")>>,
     <<SelectionColumn(1, "Funktion", "single", <<>>), TextColumn(2, "Vorname")>>}

\* tables that do not deserialize: a cell with the value null
BadTables ==
    {<<<<NullData(1)>>>>, <<<<TextData(1, "true"), NullData(2)>>>>,
     <<<<TextData(1, "true")>>, <<NullData(1)>>>>}

\* get_nextcloud_table: the request of the table scheme
GetScheme ==
    /\ pc = "get_scheme"
    /\ \E r \in FetchOutcomes :
        LET res == IF r = "ok" /\ SchemeDeserializes(scheme) THEN "ok" ELSE "err"
        IN /\ log' = Append(log, Call("nextcloud", "scheme", "", <<>>, res))
           /\ faults' = faults + Fault(r)
           /\ IF res = "ok" THEN Goto("get_rows") ELSE Fail
    /\ UNCHANGED <<config, user_configs, keycloak, kc, gitlab, gl, run, rows, scheme, columns, url>>

\* get_nextcloud_table: the request of the rows
GetRows ==
    /\ pc = "get_rows"
    /\ \E r \in FetchOutcomes :
        LET res == IF r = "ok" /\ RowsDeserialize(columns) THEN "ok" ELSE "err"
        IN /\ log' = Append(log, Call("nextcloud", "rows", "", <<>>, res))
           /\ faults' = faults + Fault(r)
           /\ IF res = "ok" THEN Goto("parse_nextcloud_table") ELSE Fail
    /\ UNCHANGED <<config, user_configs, keycloak, kc, gitlab, gl, run, rows, scheme, columns, url>>

\* get_user_configs is entered with a table at Nextcloud: a table of one raw
\* row or of two short ones under a scheme of two columns, or an answer
\* that does not deserialize
InitDecode ==
    /\ pc = "get_scheme"
    /\ \/ /\ scheme \in Schemes
          /\ columns \in ({<<r>> : r \in RawRows} \cup (ShortRawRows \X ShortRawRows))
                          \cup BadTables
       \/ /\ scheme \in BadSchemes
          /\ columns \in ShortRawRows \X ShortRawRows
    /\ rows = <<>>
    /\ user_configs = EmptyMap
    /\ config = {}
    /\ url = "https://kc.example.org"
    /\ result = "running"
    /\ keycloak = EmptyRealm
    /\ gitlab = EmptyInstance
    /\ kc = KcIdle
    /\ gl = GlIdle
    /\ log = <<>>
    /\ faults = 0
    /\ run = 1
    /\ returned = [b \in Backends |-> "none"]

\* Ok(parse_nextcloud_table(columns, scheme))
Decode ==
    /\ pc = "parse_nextcloud_table"
    /\ rows' = parse_nextcloud_table(columns, scheme)
    /\ pc' = "get_user_configs"
    /\ UNCHANGED <<result, config, user_configs, keycloak, kc, gitlab, gl, log, faults, run,
                   returned, scheme, columns, url>>

NextNextcloud == GetScheme \/ GetRows \/ Decode \/ Extract

NextDecode == NextNextcloud

\* get_user_configs: the table is decoded, then the users are extracted
SpecDecode == InitDecode /\ [][NextDecode]_vars

----------------------------------------------------------------------------
(* main *)

\* read_to_string(args.config)? and serde_json::from_str(&config)?: the
\* file cannot be read or is no Config (as every file with a users_provider
\* of the type file), or main goes on with the NextcloudTable provider
MainConfig ==
    /\ pc = "main"
    /\ \E r \in FetchOutcomes :
        /\ faults' = faults + Fault(r)
        /\ IF r = "ok" THEN Goto("get_scheme") ELSE Fail
    /\ UNCHANGED <<config, user_configs, keycloak, kc, gitlab, gl, log, run, rows, scheme, columns, url>>

\* if let Some(keycloak_config) = &config.keycloak
MainKeycloak ==
    /\ pc = "main_keycloak"
    /\ pc' = IF "keycloak" \in config THEN "kc_new" ELSE "main_authentik"
    /\ UNCHANGED <<result, returned, run, config, user_configs, keycloak, kc, gitlab, gl, log, faults, rows, scheme, columns, url>>

\* if let Some(authentik_config) = &config.authentik
MainAuthentik ==
    /\ pc = "main_authentik"
    /\ pc' = IF "authentik" \in config THEN "ak_configure" ELSE "main_gitlab"
    /\ UNCHANGED <<result, returned, run, config, user_configs, keycloak, kc, gitlab, gl, log, faults, rows, scheme, columns, url>>

\* if let Some(gitlab_config) = &config.gitlab, and the final Ok(())
MainGitlab ==
    /\ pc = "main_gitlab"
    /\ IF "gitlab" \in config
       THEN Goto("gl_new")
       ELSE pc' = "exit" /\ result' = "ok" /\ returned' = returned
    /\ UNCHANGED <<run, config, user_configs, keycloak, kc, gitlab, gl, log, faults, rows, scheme, columns, url>>

NextMain == MainConfig \/ MainKeycloak \/ MainAuthentik \/ MainGitlab

----------------------------------------------------------------------------
(* The inputs of a run *)

\* the scheme of the users table
UsersScheme ==
    <<TextColumn(1, "Funktionskennung"), TextColumn(2, "Vorname"), TextColumn(3, "Nachname"),
      SelectionColumn(4, "Funktion", "Multi", <<Option(1, "Admin")>>),
      TextColumn(5, "Fachschaft")>>

\* other is a Fachschaft that is neither owner_role nor maintainer_role
other == "CS"

\* the Fachschaften of the rows of one user: up to n rows of the Fachschaften
\* owner_role and maintainer_role, or one row of the Fachschaft other
FachschaftLists(n) == (SeqsUpTo(RoleNames, n) \ {<<>>}) \cup {<<other>>}

\* the raw rows of user u, one for each Fachschaft of fs, with no Funktion
UserRows(u, fs) ==
    [i \in DOMAIN fs |->
        <<TextData(1, u), TextData(2, u), TextData(3, u), ListData(4, <<>>),
          TextData(5, fs[i])>>]

\* the raw rows of the users of order, user by user
RECURSIVE TableOf(_, _)
TableOf(order, f) ==
    IF order = <<>> THEN <<>>
    ELSE UserRows(Head(order), f[Head(order)]) \o TableOf(Tail(order), f)

\* the users tables: rows of users among names with at most n rows each
UsersTables(names, n) ==
    UNION {[S -> FachschaftLists(n)] : S \in SUBSET names}

\* the realms: any users among names, any roles, any role mappings, listed
\* in one order
Realms(names) ==
    UNION {UNION {{[users |-> SetToSeq(U), roles |-> SetToSeq(R), role_mappings |-> m] :
                     m \in [U -> SUBSET R]} :
                  R \in SUBSET RoleNames} :
           U \in SUBSET names}

\* no two accounts of an instance have the same username up to case
GitlabAccountSets ==
    {A \in SUBSET GitlabUsers :
        \A x, y \in A : Lower(x.username) = Lower(y.username) => x = y}

\* the instances: any accounts, any of them members of the group; a member
\* starts with an access level that configure never sets
GitlabInstances ==
    UNION {{[accounts |-> A, members |-> [m \in M |-> "Developer"]] : M \in SUBSET A} :
           A \in GitlabAccountSets}

\* the state of the program when main starts: nothing is read yet
Start ==
    /\ pc = "main"
    /\ result = "running"
    /\ kc = KcIdle
    /\ gl = GlIdle
    /\ log = <<>>
    /\ faults = 0
    /\ run = 1
    /\ returned = [b \in Backends |-> "none"]
    /\ rows = <<>>
    /\ user_configs = EmptyMap
    /\ scheme = UsersScheme

\* the configuration file: the configured backends and the url of Keycloak
Configs ==
    /\ config \in SUBSET Backends
    /\ url \in IF "keycloak" \in config THEN Urls ELSE {"https://kc.example.org"}

\* the role mappings of a realm user that is not desired are never read
Relevant(realm, users) ==
    \A u \in DOMAIN realm.role_mappings : u \notin DOMAIN users => realm.role_mappings[u] = {}

\* the users table of f, which gives every user the Fachschaften of its rows
Table(f) == TableOf(SetToSeq(DOMAIN f), f)

\* the inputs of a run with one backend configured: "a" with up to MaxRoles
\* rows, "b" with one row of the Fachschaft owner_role or other
Large ==
    \E f \in {g \in UsersTables(DesiredNames, MaxRoles) :
                 "b" \in DOMAIN g => g["b"] \in {<<owner_role>>, <<other>>}} :
        /\ columns = Table(f)
        /\ keycloak \in IF "keycloak" \in config
                        THEN {realm \in Realms(Names) : Relevant(realm, f)}
                        ELSE {EmptyRealm}
        /\ gitlab \in IF "gitlab" \in config THEN GitlabInstances ELSE {EmptyInstance}

\* the inputs of repeated runs: one row for each user, "a" in the realm,
\* "a" and "c" at the instance
Medium ==
    \E f \in UsersTables(DesiredNames, 1) :
        /\ columns = Table(f)
        /\ keycloak \in IF "keycloak" \in config
                        THEN {realm \in Realms({"a"}) : Relevant(realm, f)}
                        ELSE {EmptyRealm}
        /\ gitlab \in IF "gitlab" \in config
                      THEN {g \in GitlabInstances : \A u \in g.accounts : u.username \in {"a", "c"}}
                      ELSE {EmptyInstance}

\* the inputs of a run with several backends configured: at most one
\* desired user with one row, "a" at the backends
Small ==
    \E f \in UsersTables({"a"}, 1) :
        /\ columns = Table(f)
        /\ keycloak \in IF "keycloak" \in config THEN Realms({"a"}) ELSE {EmptyRealm}
        /\ gitlab \in IF "gitlab" \in config
                      THEN {g \in GitlabInstances : \A u \in g.accounts : u.username = "a"}
                      ELSE {EmptyInstance}

\* a backend that is not configured is never contacted and starts empty
Init ==
    /\ Start
    /\ Configs
    /\ IF Cardinality(config) <= 1 THEN Large ELSE Small

\* one run of the program
Next == NextMain \/ NextNextcloud \/ NextKeycloak \/ AkConfigure \/ NextGitlab

Spec == Init /\ [][Next]_vars

\* the program is run again, with the same configuration and the same table
\* at Nextcloud, against the backends as the last run left them
RerunTo(n) ==
    /\ pc = "exit"
    /\ run < n
    /\ run' = run + 1
    /\ pc' = "main"
    /\ result' = "running"
    /\ returned' = [b \in Backends |-> "none"]
    /\ kc' = KcIdle
    /\ gl' = GlIdle
    /\ rows' = <<>>
    /\ user_configs' = EmptyMap
    /\ UNCHANGED <<config, keycloak, gitlab, log, faults, scheme, columns, url>>

\* the program is run again, up to MaxRuns runs
Rerun == RerunTo(MaxRuns)

\* repeated runs are followed with at most one backend configured
InitRerun ==
    /\ Start
    /\ Configs
    /\ Cardinality(config) <= 1
    /\ Medium

NextRerun == Next \/ Rerun

\* up to MaxRuns runs in a row
SpecRerun == InitRerun /\ [][NextRerun]_vars

\* the program is run again, up to MaxReliableRuns runs
RerunReliable == RerunTo(MaxReliableRuns)

\* the backends apply every call: no call is left that may fail
InitReliable ==
    /\ pc = "main"
    /\ result = "running"
    /\ kc = KcIdle
    /\ gl = GlIdle
    /\ log = <<>>
    /\ faults = MaxFaults
    /\ run = 1
    /\ returned = [b \in Backends |-> "none"]
    /\ rows = <<>>
    /\ user_configs = EmptyMap
    /\ scheme = UsersScheme
    /\ Configs
    /\ IF Cardinality(config) <= 1 THEN Large ELSE Small

NextReliable == Next \/ RerunReliable

\* up to MaxReliableRuns runs in a row against backends that apply every call
SpecReliable == InitReliable /\ [][NextReliable]_vars

----------------------------------------------------------------------------
(* Properties *)

\* the entries of log that belong to the current run
ThisRun == {i \in DOMAIN log : log[i].run = run}

\* configure of Keycloak has computed its plan
KcPlanned ==
    pc \in {"kc_create_users", "kc_update_users", "kc_get_all_realm_roles",
            "kc_create_realm_role", "kc_refresh_realm_roles", "kc_get_realm_roles",
            "kc_add_roles", "kc_remove_roles", "kc_delete_users"}

\* configure of GitLab has computed its plan
GlPlanned == pc \in {"gl_add_members", "gl_edit_members", "gl_remove_members"}

Usernames(s) == {s[i].username : i \in DOMAIN s}

\* three sets of identifiers are pairwise disjoint and cover exactly `all`
Partition(create, update, delete, all) ==
    /\ create \cap update = {}
    /\ create \cap delete = {}
    /\ update \cap delete = {}
    /\ (create \cup update) \cup delete = all

\* the desired users whose username lookup succeeded in this run
LookedUp ==
    {u \in GitlabCandidates(user_configs) :
        \E i \in ThisRun : log[i].op = "find_user" /\ log[i].arg = u /\ log[i].res = "ok"}

\* C1: the plan of every backend is a partition, by identifier, of the
\* identifiers of desired together with those of actual: the three sets are
\* pairwise disjoint, and no desired or actual user is left out of them.
C1_PlanCoversDesiredAndActual ==
    /\ KcPlanned =>
         Partition(Range(kc.users_to_create), Usernames(kc.users_to_update),
                   Usernames(kc.users_to_delete),
                   DOMAIN user_configs \cup Usernames(kc.keycloak_users))
    /\ GlPlanned =>
         Partition(Usernames(gl.users_to_create), Usernames(gl.users_to_update),
                   Usernames(gl.users_to_remove),
                   DOMAIN user_configs \cup Usernames(gl.current_group_members))

\* rank of a mutating user operation: create, update, delete
OpRank(op) ==
    CASE op \in {"create_user", "add_member"} -> 1
      [] op \in {"update_user", "edit_member"} -> 2
      [] op \in {"delete_user", "remove_member"} -> 3
      [] OTHER -> 0

\* C2: in every run of a backend's apply pass the mutating user operations
\* are issued as creates, then updates, then deletes: no update precedes a
\* create and no delete precedes an update or a create.
C2_ApplyOrder ==
    LET mutating == {i \in DOMAIN log : OpRank(log[i].op) > 0}
    IN \A i, j \in mutating :
         (/\ i < j
          /\ log[i].run = log[j].run
          /\ log[i].svc = log[j].svc)
         => OpRank(log[i].op) <= OpRank(log[j].op)

\* C2 witness: a Keycloak run that has issued a create, an update and a
\* delete
C2_Witness ==
    /\ \E i \in DOMAIN log : log[i].op = "create_user"
    /\ \E i \in DOMAIN log : log[i].op = "update_user"
    /\ \E i \in DOMAIN log : log[i].op = "delete_user"

\* the per-user calls of the apply passes
PerUserOps ==
    {"create_user", "update_user", "delete_user", "create_role", "add_roles",
     "remove_roles", "add_member", "edit_member", "remove_member"}

\* C3: as soon as a per-user create, update, delete or role call of a backend
\* fails, no further operation of that backend is issued in the run, and
\* every user created before the failure is still there.
C3_FirstFailureAborts ==
    /\ \A i, j \in DOMAIN log :
         (/\ i < j
          /\ log[i].run = log[j].run
          /\ log[i].svc = log[j].svc
          /\ log[i].op \in PerUserOps)
         => log[i].res = "ok"
    /\ \A i \in ThisRun :
         (log[i].op = "create_user" /\ log[i].res = "ok") => Contains(keycloak.users, log[i].arg)

\* number of calls of the current run with this operation and argument
Calls(op, arg) ==
    Cardinality({i \in ThisRun : log[i].op = op /\ log[i].arg = arg})

\* the role names that occur in the role list of some desired user
DesiredRoleNames == UNION {Range(user_configs[u].roles) : u \in DOMAIN user_configs}

\* C4: when the catalog phase is over, create_role has been called exactly
\* once for every desired role name that is absent from the snapshot of the
\* catalog, and not at all for any other name.
C4_CreateRoleOnce ==
    pc = "kc_refresh_realm_roles" =>
        \A name \in RoleNames :
            Calls("create_role", name) =
                IF name \in DesiredRoleNames /\ name \notin {r.name : r \in Range(kc.keycloak_roles)}
                THEN 1 ELSE 0

\* the catalog phase of run r ran to its end and the backend applied every
\* role creation of it
CatalogApplied(r) ==
    /\ Cardinality({i \in DOMAIN log : log[i].run = r /\ log[i].op = "get_all_realm_roles"}) = 2
    /\ \A i \in DOMAIN log :
         (log[i].run = r /\ log[i].op = "create_role") => log[i].res = "ok"

\* C5: a run that follows a run whose catalog phase was applied by the
\* backend issues no create_role call.
C5_CatalogIdempotent ==
    \A i \in DOMAIN log :
        (log[i].op = "create_role" /\ log[i].run > 1) => ~ CatalogApplied(log[i].run - 1)

\* C5 witness: the catalog phase of a second run is over, after a first run
\* that created a role
C5_Witness ==
    /\ run = 2
    /\ pc = "kc_refresh_realm_roles"
    /\ CatalogApplied(1)
    /\ \E i \in DOMAIN log : log[i].run = 1 /\ log[i].op = "create_role"

\* C6: for the matched user whose roles were just fetched, roles_to_add is
\* exactly the roles of the catalog, as it is after the catalog phase, that
\* are desired for the user and not assigned to it, and roles_to_remove is
\* exactly the assigned roles that are not desired; neither lists a role
\* twice.
C6_RoleDiff ==
    pc = "kc_add_roles" =>
        LET user == kc.users_to_update[kc.i].username
            desired == Range(user_configs[user].roles)
            catalog == Range(keycloak.roles)
            assigned == keycloak.role_mappings[user]
        IN /\ Range(kc.roles_to_add) =
                {KeycloakRole(n) : n \in (desired \cap catalog) \ assigned}
           /\ Len(kc.roles_to_add) = Cardinality(Range(kc.roles_to_add))
           /\ Range(kc.roles_to_remove) = {KeycloakRole(n) : n \in assigned \ desired}
           /\ Len(kc.roles_to_remove) = Cardinality(Range(kc.roles_to_remove))

\* C6 witness: a matched user with a role to add, which this run created,
\* and a role to remove
C6_Witness ==
    /\ pc = "kc_add_roles"
    /\ kc.roles_to_add # <<>>
    /\ kc.roles_to_remove # <<>>
    /\ \E i \in ThisRun : log[i].op = "create_role" /\ KeycloakRole(log[i].arg) \in Range(kc.roles_to_add)

\* C7: when the call that adds roles to a user fails, by an error status or
\* by the transport, the run is over and has failed, and nothing was issued
\* after the call.
C7_AddRolesFailureAborts ==
    \A i \in ThisRun :
        (log[i].op = "add_roles" /\ log[i].res # "ok")
        => (pc = "exit" /\ result = "err" /\ i = Len(log))

\* C8: when the username lookup of a desired user fails, the run ends in
\* failure, and no member with that username is removed from the group.
C8_LookupFailureSurfaces ==
    \A i \in ThisRun :
        (log[i].op = "find_user" /\ log[i].res # "ok")
        => /\ pc = "exit" => result # "ok"
           /\ \A j \in ThisRun :
                (j > i /\ log[j].op = "remove_member") => Lower(log[j].arg) # Lower(log[i].arg)

\* the place of a backend in main
SvcRank(svc) ==
    CASE svc = "keycloak" -> 1
      [] svc = "authentik" -> 2
      [] svc = "gitlab" -> 3

\* the calls of the current run to the backends, which leaves the calls to
\* Nextcloud out
BackendCalls == {i \in ThisRun : log[i].svc \in Backends}

\* the calls of the current run to a backend
CallsOf(svc) == {i \in ThisRun : log[i].svc = svc}

\* C9: only configured backends are contacted, in the order keycloak,
\* authentik, gitlab; a backend is contacted only after configure of every
\* configured backend before it has returned Ok; and once a configure has
\* returned Err the run is over and has failed, with no later backend
\* contacted.
C9_BackendOrder ==
    /\ \A i \in BackendCalls : log[i].svc \in config
    /\ \A s, t \in Backends :
         SvcRank(s) < SvcRank(t) =>
            \A i \in CallsOf(s), j \in CallsOf(t) : i < j
    /\ \A i \in BackendCalls : \A b \in config :
         SvcRank(b) < SvcRank(log[i].svc) => returned[b] = "ok"
    /\ \A b \in Backends :
         returned[b] = "err" =>
            /\ pc = "exit"
            /\ result = "err"
            /\ \A i \in BackendCalls : SvcRank(log[i].svc) <= SvcRank(b)

\* C9 witness: all three backends have been contacted
C9_Witness ==
    /\ \E i \in ThisRun : log[i].svc = "keycloak"
    /\ \E i \in ThisRun : log[i].svc = "authentik"
    /\ \E i \in ThisRun : log[i].svc = "gitlab" /\ log[i].op = "add_member"

\* a row that get_user_configs admits
Admitted(b) ==
    /\ IsString(b, "Funktionskennung")
    /\ IsString(b, "Vorname")
    /\ IsString(b, "Nachname")
    /\ IsList(b, "Funktion")
    /\ IsString(b, "Fachschaft")

\* row i is the only admitted row with its identifier
OnlyRowOfUser(i) ==
    \A j \in DOMAIN rows :
        (j # i /\ Admitted(rows[j]))
        => rows[j]["Funktionskennung"].value # rows[i]["Funktionskennung"].value

\* "F - r1", ..., "F - rn"
Derived(F, l) == [k \in DOMAIN l |-> F \o " - " \o l[k]]

Extracted == pc # "get_user_configs" /\ rows # <<>>

\* C10 as claimed: the roles of the user of an admitted row are the derived
\* roles in input order followed by the Fachschaft.
C10_DerivedRolesOnly ==
    Extracted =>
        \A i \in DOMAIN rows :
            (Admitted(rows[i]) /\ OnlyRowOfUser(i)) =>
                LET b == rows[i]
                    id == b["Funktionskennung"].value
                IN /\ id \in DOMAIN user_configs
                   /\ user_configs[id].roles =
                        Derived(b["Fachschaft"].value, b["Funktion"].value)
                            \o <<b["Fachschaft"].value>>

\* C10 as amended: the roles of the user of an admitted row are the base
\* roles in input order, followed by the derived roles in input order,
\* followed by the Fachschaft once; for base roles [Admin] and Fachschaft CS
\* they are ["Admin", "CS - Admin", "CS"]; email is identifier@hhu.de,
\* matrix_id is absent and enabled is true.
C10_RowRoles ==
    Extracted =>
        \A i \in DOMAIN rows :
            (Admitted(rows[i]) /\ OnlyRowOfUser(i)) =>
                LET b == rows[i]
                    id == b["Funktionskennung"].value
                    F == b["Fachschaft"].value
                    l == b["Funktion"].value
                IN /\ id \in DOMAIN user_configs
                   /\ user_configs[id].roles = (l \o Derived(F, l)) \o <<F>>
                   /\ (l = <<"Admin">> /\ F = "CS") =>
                        user_configs[id].roles = <<"Admin", "CS - Admin", "CS">>
                   /\ user_configs[id].email = Some(id \o "@hhu.de")
                   /\ user_configs[id].matrix_id = None
                   /\ user_configs[id].enabled = TRUE

\* C10 witness: the table of the end-to-end scenario has been extracted
C10_Witness ==
    /\ Extracted
    /\ Len(rows) = 1
    /\ Admitted(rows[1])
    /\ rows[1]["Funktion"].value = <<"Admin">>
    /\ rows[1]["Fachschaft"].value = "CS"
    /\ "jdoe" \in DOMAIN user_configs

\* the admitted rows with identifier id, as indices of rows
RowsOf(id) ==
    {i \in DOMAIN rows : Admitted(rows[i]) /\ rows[i]["Funktionskennung"].value = id}

\* the identifiers of the admitted rows
Identifiers == {rows[i]["Funktionskennung"].value : i \in {j \in DOMAIN rows : Admitted(rows[j])}}

\* the role list that a row yields on its own
RoleListOf(b) ==
    (b["Funktion"].value \o Derived(b["Fachschaft"].value, b["Funktion"].value))
        \o <<b["Fachschaft"].value>>

\* the role lists of the rows of id from row i on, concatenated in row order
RECURSIVE RoleListsFrom(_, _)
RoleListsFrom(i, id) ==
    IF i > Len(rows) THEN <<>>
    ELSE (IF i \in RowsOf(id) THEN RoleListOf(rows[i]) ELSE <<>>) \o RoleListsFrom(i + 1, id)

\* C11: the desired state has exactly one entry for every identifier of an
\* admitted row and no other entry; its first name, last name and email are
\* those of the first admitted row with the identifier, and its roles are
\* the role lists of the admitted rows with the identifier, concatenated in
\* row order with duplicates retained.
C11_MergeFirstWins ==
    Extracted =>
        /\ DOMAIN user_configs = Identifiers
        /\ \A id \in Identifiers :
             LET first == CHOOSE i \in RowsOf(id) : \A j \in RowsOf(id) : i <= j
             IN /\ user_configs[id].first_name = Some(rows[first]["Vorname"].value)
                /\ user_configs[id].last_name = Some(rows[first]["Nachname"].value)
                /\ user_configs[id].email = Some(id \o "@hhu.de")
                /\ user_configs[id].roles = RoleListsFrom(1, id)

\* C11 witness: three admitted rows of one user have been merged, the first
\* two with different first names and the roles of the first row occur
\* again in the third
C11_Witness ==
    /\ Extracted
    /\ Len(rows) = 3
    /\ RowsOf("jdoe") = {1, 2, 3}
    /\ rows[1]["Vorname"] # rows[2]["Vorname"]
    /\ rows[1]["Funktion"] = List(<<"Admin">>)
    /\ rows[3] = rows[1]
    /\ Len(user_configs["jdoe"].roles) = Len(RoleListOf(rows[1])) + Len(RoleListOf(rows[2])) + Len(RoleListOf(rows[3]))

\* a row in which Funktionskennung, Vorname or Nachname is missing or no
\* String, or Funktion is missing or no List
Malformed(b) ==
    \/ ~ IsString(b, "Funktionskennung")
    \/ ~ IsString(b, "Vorname")
    \/ ~ IsString(b, "Nachname")
    \/ ~ IsList(b, "Funktion")

\* C12: a malformed row contributes nothing: the desired state is the one
\* of the table without its malformed rows, every entry has the identifier
\* of a row that is not malformed, and first name, last name and email of
\* every entry are present.
C12_RowAdmission ==
    Extracted =>
        /\ user_configs = get_user_configs(SelectSeq(rows, LAMBDA b : ~ Malformed(b)))
        /\ \A id \in DOMAIN user_configs :
             /\ \E i \in DOMAIN rows :
                  ~ Malformed(rows[i]) /\ rows[i]["Funktionskennung"].value = id
             /\ user_configs[id].first_name # None
             /\ user_configs[id].last_name # None
             /\ user_configs[id].email # None

\* C12 witness: a row of "jdoe" whose Vorname is a Bool, with a role and a
\* Fachschaft, before an admitted row of "jdoe"; only the second row is in
\* the desired state
C12_Witness ==
    /\ Extracted
    /\ Len(rows) = 2
    /\ DOMAIN rows[1] = Titles
    /\ rows[1]["Funktionskennung"] = String("jdoe")
    /\ rows[1]["Vorname"] = Bool(TRUE)
    /\ IsString(rows[1], "Nachname")
    /\ rows[1]["Funktion"] = List(<<"Admin">>)
    /\ IsString(rows[1], "Fachschaft")
    /\ RowsOf("jdoe") = {2}
    /\ user_configs["jdoe"].roles = RoleListOf(rows[2])

\* parse_nextcloud_table has returned the decoded rows of a table
Decoded ==
    /\ columns # <<>>
    /\ pc \notin {"main", "get_scheme", "get_rows", "parse_nextcloud_table"}
    /\ \E i \in ThisRun : log[i].op = "rows" /\ log[i].res = "ok"

\* the labels of the ids of l that are ids of options, in the order of l
LabelsOf(l, options) ==
    LET known == SelectSeq(l, LAMBDA v : \E o \in Range(options) : o.id = v)
    IN [i \in DOMAIN known |-> (CHOOSE o \in Range(options) : o.id = known[i]).label]

\* the number of a cell and the id of an option are the same number: an id
\* is unsigned, so that no id is a negative number, and an id written as a
\* negative one is 2^63 or more, which no number of a cell is
SameNumber(id, number) == number >= 0 /\ id = number

\* the resolution table: the results it gives for a raw cell against a
\* column, none when the cell is dropped
TableResult(column, c) ==
    CASE column.kind = "Text" /\ c.data = "Text" -> {String(c.text)}
      [] column.kind = "Selection" /\ column.subtype = "Check" /\ c.data = "Text" ->
           IF c.text \in {"true", "false"} THEN {Bool(c.text = "true")} ELSE {}
      [] column.kind = "Selection" /\ column.subtype = "Single" /\ c.data = "Number" ->
           {String(o.label) :
               o \in {x \in Range(column.selectionOptions) : SameNumber(x.id, c.number)}}
      [] column.kind = "Selection" /\ column.subtype = "Multi" /\ c.data = "List" ->
           {List(LabelsOf(c.list, column.selectionOptions))}
      [] OTHER -> {}

\* the columns of the scheme with the id of a raw cell for which the table
\* gives a result
ResolvingColumns(c) ==
    {j \in DOMAIN scheme : scheme[j].id = c.column_id /\ TableResult(scheme[j], c) # {}}

\* C13: there is one decoded row for every raw row; each entry title ->
\* value of a decoded row is the result the resolution table gives for some
\* raw cell of the same row against the scheme column with the cell's id,
\* and a raw cell whose column id is not in the scheme or for which the
\* table gives no result, as a Single selection whose number is the id of no
\* option, adds no entry: the titles of the decoded row are the titles of
\* the columns of the cells that have a result.
C13_DecodeByTable ==
    Decoded =>
        /\ Len(rows) = Len(columns)
        /\ \A r \in DOMAIN rows :
             /\ \A title \in DOMAIN rows[r] :
                  \E k \in DOMAIN columns[r] :
                      \E j \in ResolvingColumns(columns[r][k]) :
                          /\ scheme[j].title = title
                          /\ rows[r][title] \in TableResult(scheme[j], columns[r][k])
             /\ DOMAIN rows[r] =
                  {scheme[j].title :
                      j \in UNION {ResolvingColumns(columns[r][k]) : k \in DOMAIN columns[r]}}

\* cell k of raw row r is an id list for a Multi selection column, and no
\* later cell of the row gives an entry with the title of that column
MultiCell(r, k, j) ==
    /\ scheme[j].id = columns[r][k].column_id
    /\ scheme[j].kind = "Selection"
    /\ scheme[j].subtype = "Multi"
    /\ columns[r][k].data = "List"
    /\ \A k2 \in DOMAIN columns[r] :
         k2 > k => LET e == ResolveCell(scheme, columns[r][k2])
                   IN e = <<>> \/ e[1].title # scheme[j].title

\* C14: a Multi selection cell with id list L always decodes to a List cell,
\* also when no id of L is an option; its elements are the labels of exactly
\* the ids of L that are options of the column, in the order of L.  For
\* L = [1, 99, 2] and options {1: A, 2: B} the cell is List([A, B]).
C14_MultiSelection ==
    Decoded =>
        \A r \in DOMAIN columns : \A k \in DOMAIN columns[r] : \A j \in DOMAIN scheme :
            MultiCell(r, k, j) =>
                LET L == columns[r][k].list
                    options == scheme[j].selectionOptions
                    title == scheme[j].title
                IN /\ title \in DOMAIN rows[r]
                   /\ rows[r][title].cell = "List"
                   /\ rows[r][title].value = LabelsOf(L, options)
                   /\ (\A i \in DOMAIN L : \A o \in Range(options) : o.id # L[i])
                        => rows[r][title] = List(<<>>)
                   /\ (L = <<1, 99, 2>> /\ options = <<Option(1, "A"), Option(2, "B")>>)
                        => rows[r][title] = List(<<"A", "B">>)

\* C14 witness: the id list [2, 99, 1] has been decoded against the options
\* {1: A, 2: B}
C14_Witness ==
    /\ Decoded
    /\ columns = <<<<ListData(1, <<2, 99, 1>>)>>>>
    /\ MultiCell(1, 1, 1)
    /\ scheme[1].selectionOptions = <<Option(1, "A"), Option(2, "B")>>
    /\ rows[1][scheme[1].title] = List(<<"B", "A">>)

\* the fetches of the catalog in the current run that precede call i
FetchesBefore(i) ==
    {f \in ThisRun : f < i /\ log[f].op = "get_all_realm_roles" /\ log[f].res = "ok"}

\* the role names that the backend created in the current run
CreatedRoles == {log[i].arg : i \in {j \in ThisRun : log[j].op = "create_role" /\ log[j].res = "ok"}}

\* the calls of the assignment phase
AssignmentOps == {"get_realm_roles", "add_roles", "remove_roles"}

\* C15: every create_role call comes after the first and before the second
\* fetch of the catalog, and every fetch or change of a user's assigned
\* roles comes after the second fetch; roles_to_add is computed against the
\* second snapshot, so that it holds every role created in this run that is
\* desired for the user, and once the user's role calls were issued and the
\* add call succeeded, the user has these roles.
C15_TwoPhases ==
    /\ \A i \in ThisRun :
         /\ log[i].op = "create_role" => Cardinality(FetchesBefore(i)) = 1
         /\ log[i].op \in AssignmentOps => Cardinality(FetchesBefore(i)) = 2
    /\ pc = "kc_add_roles" =>
         LET user == kc.users_to_update[kc.i].username
         IN \A n \in CreatedRoles \cap Range(user_configs[user].roles) :
                KeycloakRole(n) \in Range(kc.roles_to_add)
    /\ \A i \in ThisRun :
         log[i].op = "remove_roles" =>
            \/ \E j \in ThisRun : /\ log[j].op = "add_roles"
                                   /\ log[j].arg = log[i].arg
                                   /\ log[j].res # "ok"
            \/ CreatedRoles \cap Range(user_configs[log[i].arg].roles)
                    \subseteq keycloak.role_mappings[log[i].arg]

\* C15 witness: a role that this run created has been added to a matched
\* user
C15_Witness ==
    \E j \in ThisRun :
        /\ log[j].op = "add_roles"
        /\ log[j].res = "ok"
        /\ \E n \in CreatedRoles :
             /\ KeycloakRole(n) \in Range(log[j].roles)
             /\ n \in keycloak.role_mappings[log[j].arg]
        /\ \E i \in ThisRun : i > j /\ log[i].op = "remove_roles" /\ log[i].arg = log[j].arg

\* C16: get_realm_roles, add_roles and remove_roles are issued only for
\* users that were in the list of users the run fetched and are desired, and
\* never for a user the run created; when the catalog phase is over, it has
\* issued a create_role for every role of a user to create that is absent
\* from the first snapshot.
C16_RoleCallsForMatchedOnly ==
    /\ \A i \in ThisRun :
         log[i].op \in AssignmentOps =>
            /\ log[i].arg \in Usernames(kc.keycloak_users)
            /\ log[i].arg \in DOMAIN user_configs
            /\ ~ \E j \in ThisRun : log[j].op = "create_user" /\ log[j].arg = log[i].arg
    /\ pc = "kc_refresh_realm_roles" =>
         \A u \in Range(kc.users_to_create) :
            \A n \in Range(user_configs[u].roles) :
                n \notin {r.name : r \in Range(kc.keycloak_roles)} => Calls("create_role", n) >= 1

\* C16 witness: the run is over; it created a user, created a role that
\* only this user holds, and issued role calls for a matched user
C16_Witness ==
    /\ pc = "exit"
    /\ result = "ok"
    /\ \E i, j, k \in ThisRun :
         /\ log[i].op = "create_user" /\ log[i].res = "ok"
         /\ log[j].op = "create_role"
         /\ log[j].arg \in Range(user_configs[log[i].arg].roles)
         /\ \A u \in DOMAIN user_configs :
              u # log[i].arg => log[j].arg \notin Range(user_configs[u].roles)
         /\ log[k].op = "remove_roles"

\* the matched users whose role assignment the current run has completed
Assigned ==
    CASE pc \in {"kc_get_realm_roles", "kc_add_roles", "kc_remove_roles"} ->
           {kc.users_to_update[k].username : k \in 1..(kc.i - 1)}
      [] pc = "kc_delete_users" \/ returned["keycloak"] = "ok" -> Usernames(kc.users_to_update)
      [] OTHER -> {}

\* C17: for the matched user at hand, once the add step is over, an
\* add_roles call has been issued if and only if roles_to_add is not empty,
\* and no remove_roles call yet; no add_roles call carries an empty list;
\* for every matched user whose role assignment is completed exactly one
\* remove_roles call has been issued, whether or not it carries any role,
\* and no user has more than one call of either kind.
C17_AddIfNonEmptyRemoveAlways ==
    /\ pc = "kc_remove_roles" =>
         LET user == kc.users_to_update[kc.i].username
         IN /\ Calls("add_roles", user) = IF kc.roles_to_add # <<>> THEN 1 ELSE 0
            /\ Calls("remove_roles", user) = 0
    /\ \A i \in ThisRun : log[i].op = "add_roles" => log[i].roles # <<>>
    /\ \A u \in Assigned : Calls("remove_roles", u) = 1
    /\ \A u \in Names : Calls("remove_roles", u) <= 1 /\ Calls("add_roles", u) <= 1

\* C17 witness: the run is over; one matched user got a remove_roles call
\* with no role and no add_roles call, another an add_roles call and a
\* remove_roles call
C17_Witness ==
    /\ pc = "exit"
    /\ result = "ok"
    /\ \E i, j \in ThisRun :
         /\ log[i].op = "remove_roles"
         /\ log[i].roles = <<>>
         /\ Calls("add_roles", log[i].arg) = 0
         /\ log[j].op = "add_roles"
         /\ log[j].arg # log[i].arg
         /\ Calls("remove_roles", log[j].arg) = 1

\* C18: every key of the desired state is a non-empty identifier.
C18_NonEmptyIdentifier ==
    Extracted => \A id \in DOMAIN user_configs : id # ""

\* every Keycloak call so far was applied by the backend
AllApplied == \A i \in DOMAIN log : log[i].svc = "keycloak" => log[i].res = "ok"

\* the desired state of the table at Nextcloud, which every run extracts
DesiredState == get_user_configs(parse_nextcloud_table(columns, scheme))

\* the current run follows two runs in which configure of Keycloak returned
\* Ok, against a backend that applied every call
AfterTwoRuns ==
    /\ "keycloak" \in config
    /\ run >= 3
    /\ AllApplied
    /\ \A r \in 1..(run - 1) :
         \E i \in DOMAIN log :
             log[i].run = r /\ log[i].svc = "keycloak" /\ log[i].op = "get_all_realm_roles"

\* C19: in a Keycloak run that follows two successful runs with the same
\* desired state, against a backend that applies every call, the plan has
\* no user to create and none to delete, no create_user, delete_user,
\* create_role or add_roles call is issued, roles_to_add and roles_to_remove
\* of every user are empty, and every desired user exists at the backend
\* with exactly its desired role names assigned.
C19_FixedPoint ==
    AfterTwoRuns =>
        /\ KcPlanned => kc.users_to_create = <<>> /\ kc.users_to_delete = <<>>
        /\ \A i \in ThisRun :
             log[i].op \notin {"create_user", "delete_user", "create_role", "add_roles"}
        /\ pc = "kc_add_roles" => kc.roles_to_add = <<>> /\ kc.roles_to_remove = <<>>
        /\ \A i \in ThisRun : log[i].op = "remove_roles" => log[i].roles = <<>>
        /\ LET desired == DesiredState
           IN /\ \A u \in DOMAIN desired :
                   /\ Contains(keycloak.users, u)
                   /\ keycloak.role_mappings[u] = Range(desired[u].roles)
              /\ Range(keycloak.users) \subseteq DOMAIN desired

\* C19 witness: a third run is over; the first run created a user and a
\* role and deleted a user, the second gave the role to the created user,
\* the third issued a remove_roles call
C19_Witness ==
    /\ AfterTwoRuns
    /\ pc = "exit"
    /\ result = "ok"
    /\ \E i, j, k, d \in DOMAIN log :
         /\ log[i].run = 1 /\ log[i].op = "create_user"
         /\ log[d].run = 1 /\ log[d].op = "delete_user"
         /\ log[j].run = 2 /\ log[j].op = "add_roles" /\ log[j].arg = log[i].arg
         /\ \E c \in DOMAIN log :
              /\ log[c].run = 1 /\ log[c].op = "create_role"
              /\ KeycloakRole(log[c].arg) \in Range(log[j].roles)
         /\ log[k].run = 3 /\ log[k].op = "remove_roles"

\* update_user_roles has returned Ok for the matched user of the last call:
\* the DELETE of its roles_to_remove is the last call and the pass goes on
AssignmentCompleted ==
    /\ pc = "kc_get_realm_roles"
    /\ log # <<>>
    /\ log[Len(log)].run = run
    /\ log[Len(log)].svc = "keycloak"
    /\ log[Len(log)].op = "remove_roles"

\* C20: the roles_to_add and roles_to_remove computed for a matched user
\* are disjoint, and when update_user_roles has returned Ok for the user the
\* set of role names assigned to it at the backend equals the set of its
\* desired role names.
C20_AssignmentReachesDesired ==
    /\ pc = "kc_add_roles" =>
         Range(kc.roles_to_add) \cap Range(kc.roles_to_remove) = {}
    /\ AssignmentCompleted =>
         LET u == log[Len(log)].arg
         IN keycloak.role_mappings[u] = Range(user_configs[u].roles)

\* the calls of update_users and update_roles
SyncOps ==
    {"update_user", "get_all_realm_roles", "create_role", "get_realm_roles",
     "add_roles", "remove_roles"}

\* the Keycloak calls of the current run that delete a user
Deletes == {i \in ThisRun : log[i].svc = "keycloak" /\ log[i].op = "delete_user"}

\* the calls of update_users and update_roles of the current run that failed
FailedSyncs ==
    {i \in ThisRun : log[i].svc = "keycloak" /\ log[i].op \in SyncOps /\ log[i].res # "ok"}

\* C21: a delete_user call of a Keycloak run comes after an update_user
\* call and a remove_roles call for every matched user, and no call of the
\* catalog phase or of a user's role assignment has failed before it: after
\* such a failure no backend user is deleted.
C21_DeleteAfterSync ==
    Deletes # {} =>
        /\ FailedSyncs = {}
        /\ \A k \in DOMAIN kc.users_to_update :
             \A op \in {"update_user", "remove_roles"} :
                \E i \in ThisRun : /\ log[i].svc = "keycloak"
                                    /\ log[i].op = op
                                    /\ log[i].arg = kc.users_to_update[k].username

\* the backend users whose desired record the apply phase is about to look
\* up, or has looked up, by their username
RecordLookups ==
    CASE pc \in {"kc_update_users", "kc_get_realm_roles", "kc_add_roles", "kc_remove_roles"} ->
            {kc.users_to_update[k].username :
                k \in {k \in DOMAIN kc.users_to_update : k <= kc.i}}
      [] pc = "gl_add_members" ->
            {gl.users_to_create[k].username :
                k \in {k \in DOMAIN gl.users_to_create : k <= gl.i}}
      [] pc = "gl_edit_members" ->
            {gl.users_to_update[k].username :
                k \in {k \in DOMAIN gl.users_to_update : k <= gl.i}}
      [] OTHER -> {}

\* C22: the username of every backend user whose desired record the apply
\* phase looks up (Keycloak update_users and update_roles, GitLab add and
\* edit of a group member) is a key of the desired state, and no run ends
\* with the panic of a failed lookup (the only other panic of a run is the
\* one of KeycloakClient::new on a url that does not parse).
C22_LookupCannotFail ==
    /\ RecordLookups \subseteq DOMAIN user_configs
    /\ result = "panic" => "keycloak" \in config /\ ~ ParsesAsUrl(url)

\* configure of GitLab has returned Ok in the current run
GitlabSucceeded == "gitlab" \in config /\ returned["gitlab"] = "ok"

\* the account a desired user resolved to in this run: its username lookup
\* succeeded and the answer held an account
ResolvesTo(u, account) ==
    /\ u \in LookedUp
    /\ Resolved("ok", GitlabFindUsers(gitlab, u)) = <<account>>

\* the desired users that hold owner_role or maintainer_role
HoldsGroupRole(u) ==
    /\ u \in DOMAIN user_configs
    /\ {owner_role, maintainer_role} \cap Range(user_configs[u].roles) # {}

\* C23: after a GitLab run that returned Ok the members of the group are
\* exactly the accounts that desired users holding owner_role or
\* maintainer_role resolved to; such a member has access level Owner when
\* the roles of its user contain owner_role and Maintainer otherwise; every
\* other account, a desired user holding neither role included, is no
\* member.
C23_GroupMembers ==
    GitlabSucceeded =>
        /\ DOMAIN gitlab.members =
              {x \in gitlab.accounts : \E u \in DOMAIN user_configs :
                                          HoldsGroupRole(u) /\ ResolvesTo(u, x)}
        /\ \A x \in DOMAIN gitlab.members : \A u \in DOMAIN user_configs :
              ResolvesTo(u, x) =>
                 gitlab.members[x] = IF owner_role \in Range(user_configs[u].roles)
                                     THEN "Owner" ELSE "Maintainer"
        /\ \A x \in gitlab.accounts :
              (x.username \in DOMAIN user_configs /\ ~ HoldsGroupRole(x.username))
                 => x \notin DOMAIN gitlab.members

\* C23 witness: a GitLab run returned Ok; a user whose roles contain
\* owner_role and maintainer_role is a member with level Owner, and a
\* desired user holding neither role, a member before, has been removed
C23_Witness ==
    /\ GitlabSucceeded
    /\ \E x \in DOMAIN gitlab.members :
         /\ x.username \in DOMAIN user_configs
         /\ {owner_role, maintainer_role} \subseteq Range(user_configs[x.username].roles)
         /\ gitlab.members[x] = "Owner"
    /\ \E i \in ThisRun :
         /\ log[i].op = "remove_member"
         /\ log[i].res = "ok"
         /\ log[i].arg \in DOMAIN user_configs
         /\ ~ HoldsGroupRole(log[i].arg)

\* the rows of the table with the identifier id and a String Fachschaft
RowsWithFachschaft(id) ==
    {i \in DOMAIN rows : /\ IsString(rows[i], "Funktionskennung")
                         /\ rows[i]["Funktionskennung"].value = id
                         /\ IsString(rows[i], "Fachschaft")}

\* C24: a row without a Fachschaft cell that decoded to a String yields no
\* user and contributes nothing, whatever its other cells are: the desired
\* state is the one of the table without these rows, and every entry has
\* the identifier of a row with a String Fachschaft.
C24_FachschaftRequired ==
    Extracted =>
        /\ user_configs =
              get_user_configs(SelectSeq(rows, LAMBDA b : IsString(b, "Fachschaft")))
        /\ \A id \in DOMAIN user_configs : RowsWithFachschaft(id) # {}

\* C24 witness: a table of two rows with valid Funktionskennung, Vorname,
\* Nachname and Funktion, the first with an empty Funktion list and no
\* Fachschaft cell, the second with a role and a Fachschaft that is no
\* String; the desired state is empty
C24_Witness ==
    /\ Extracted
    /\ Len(rows) = 2
    /\ \A i \in {1, 2} : ~ Malformed(rows[i])
    /\ rows[1]["Funktion"] = List(<<>>)
    /\ "Fachschaft" \notin DOMAIN rows[1]
    /\ rows[2]["Funktion"] = List(<<"Admin">>)
    /\ "Fachschaft" \in DOMAIN rows[2]
    /\ rows[2]["Fachschaft"].cell # "String"
    /\ user_configs = EmptyMap

====
